---- MODULE Spec2Model ----
(***************************************************************************)
(* Model of the MCP host: the recursive stream/tool loop of MCPClient      *)
(* (src/host.ts, both class versions in that file) and the retry helper    *)
(* retryWithExponentialBackoff (src/cli-client.ts).                        *)
(*                                                                         *)
(* Strings are sequences of tokens (<<>> is the empty string, \o is +).    *)
(***************************************************************************)
EXTENDS Integers, Sequences, FiniteSets, TLC

\* ------------------------------------------------------------------ bounds
MaxDepthBound == 2      \* MAX_TOOL_DEPTH ranges over 1..MaxDepthBound
MaxMessages   == 5      \* length of this.messages modelled per session
MaxChunks     == 3      \* content_block_start/_delta chunks modelled per session
MaxAttemptsBound == 3   \* options.maxAttempts ranges over 1..MaxAttemptsBound

VARIABLES
  variant,         \* which MCPClient class of host.ts runs: 1 (depth/halt) or 2
  MAX_TOOL_DEPTH,  \* the recursion bound of processStream (host.ts 165: 10), fixed per run
  messages,        \* this.messages: the conversation history
  stack,           \* the active processStream frames, innermost last
  chunks,          \* content chunks the completion API has streamed so far
  result,          \* what the last processQuery gave its caller
  caught,          \* the error the last processQuery caught, "" when none
  logged,          \* the last warning given to the logger by the current query
  toolCalls,       \* tools/call requests sent to the provider by the current query
  requests,        \* messages.create requests answered with a stream, current query
  creates,         \* messages.create invocations of the current query, rejected ones included
  cli,             \* MCPClientCLI: "connect" and "discover" (client.start), "prompt"
                   \* (rl.question), "query" (processQuery), "closed", "exit1"
  started,         \* TRUE once client.start() has resolved
  connection,      \* mcpClient: "none", "open" once connect resolved, "closed" after close()
  \* --- one call of retryWithExponentialBackoff
  options,         \* the RetryOptions after defaults
  attempt,         \* let attempt
  delay,           \* let delay
  settled,         \* "" while the loop runs, then "returned" or "thrown"
  thrown,          \* the error the call rejected with
  errors,          \* the errors operation() threw, in order
  calls,           \* number of operation() invocations
  sleeps,          \* the delays slept, in order
  warnings         \* number of console.warn retry warnings

hostVars == <<variant, MAX_TOOL_DEPTH, messages, stack, chunks, result, caught,
              logged, toolCalls, requests, creates, cli, started,
              connection>>

retryVars == <<options, attempt, delay, settled, thrown, errors, calls, sleeps, warnings>>

vars == <<hostVars, retryVars>>

\* ------------------------------------------------------------- vocabulary
Tools         == {<<"add">>}                  \* this.tools after initMCPTools
BlockNames    == {<<"add">>, <<"nope">>}      \* names a tool_use block may carry
TextDeltas    == {<<"H">>, <<"i">>}           \* text of a text_delta
JsonDeltas    == {<<"{">>, <<"a", "}">>, <<"5">>}      \* partial_json of an input_json_delta
StopReasons   == {"end_turn", "tool_use"}
ToolContents  == {<< <<"2">>, <<"3">> >>}     \* toolResult.content: its text segments
QueryTexts    == {<<"q">>}
ApiFailures   == {"rate limit", "4xx"}        \* what a rejected messages.create is

Instruction == <<"Please continue your response without using tools.">>
Preamble    == <<"Instructions on Answering the User Query: ... User Query: ">>

\* JSON.parse of the accumulated payload: the parsed value (an object, or the
\* number that the text 5 denotes), or "SyntaxError"
JSONParse(s) ==
  IF s = <<"{", "}">> THEN "{}"
  ELSE IF s = <<"{", "a", "}">> THEN "{a}"
  ELSE IF s = <<"5">> THEN "5"
  ELSE "SyntaxError"

\* JSON.parse without the test for an empty payload
ToolArgs_AlwaysParse(input) == JSONParse(input)

\* the arguments of the tool call: an empty payload is the empty object
ToolArgs(input) ==
  IF input # <<>> THEN JSONParse(input) ELSE "{}"

\* the strings of a list one after the other: += over the list, join('')
RECURSIVE Concat(_)
Concat(strings) ==
  IF strings = <<>> THEN <<>> ELSE Head(strings) \o Concat(Tail(strings))

\* the elements of JSON.stringify of a list of strings: each quoted, comma separated
RECURSIVE Quoted(_)
Quoted(strings) ==
  IF strings = <<>> THEN <<>>
  ELSE <<"\"">> \o Head(strings) \o <<"\"">>
         \o (IF Tail(strings) = <<>> THEN <<>> ELSE <<",">> \o Quoted(Tail(strings)))

\* formatJSON(JSON.stringify(toolResult.content.flatMap((c) => c.text))): the
\* colouring of formatJSON finds no "key": and no : "value" in a list of strings
FormattedResult(content) == <<"[">> \o Quoted(content) \o <<"]">>

\* the template without the name of the tool
ToolResultMessage_Unnamed(name, content) ==
  <<"Tool result returned for [">> \o <<"]: ">> \o Concat(content)

\* `Tool result returned for [${currentToolName}]: ${toolResultContent}` with
\* toolResultContent = toolResult.content.map((c) => c.text).join('')
ToolResultMessage(name, content) ==
  <<"Tool result returned for [">> \o name \o <<"]: ">> \o Concat(content)

Msg(role, content) == [role |-> role, content |-> content]

\* DepthGuard: may a capability be invoked on this turn
allowCapabilities(depth, halted) == ~halted /\ depth < MAX_TOOL_DEPTH

\* entry check written with > instead of >=
HaltOnEntry_OffByOne(depth, halt) == depth > MAX_TOOL_DEPTH \/ halt

\* the halt flag a frame works with after its entry check
HaltOnEntry(depth, halt) == depth >= MAX_TOOL_DEPTH \/ halt

\* the warning of the entry check: 'Halting further tool calls'
EntryLog(depth, halt) == IF HaltOnEntry(depth, halt) THEN "halting" ELSE logged

\* a fresh processStream frame of the first class
\* (texts, blocks and commits record what the stream has delivered and what the
\* frame has committed: the text fragments, the tool_use blocks with the fragments
\* that arrived in each, the assistant texts pushed)
NewFrame(depth, halt) ==
  [depth |-> depth, haltParam |-> halt, halt |-> HaltOnEntry(depth, halt),
   currentMessage |-> <<>>, currentToolName |-> <<>>,
   currentToolInputString |-> <<>>,
   texts |-> <<>>, blocks |-> <<>>, commits |-> 0]

\* a fresh processStream frame of the second class: no depth, no halt
NewFrame2 ==
  [depth |-> 0, haltParam |-> FALSE, halt |-> FALSE,
   currentMessage |-> <<>>, currentToolName |-> <<>>,
   currentToolInputString |-> <<>>,
   texts |-> <<>>, blocks |-> <<>>, commits |-> 0]

Top == stack[Len(stack)]
Running == Len(stack) > 0
SetTop_Outermost(f) == [stack EXCEPT ![1] = f]
SetTop(f) == [stack EXCEPT ![Len(stack)] = f]
Pop == SubSeq(stack, 1, Len(stack) - 1)

\* a messages.create request that was answered with a stream
Request(tools, depth, halt) == [tools |-> tools, depth |-> depth, halt |-> halt]

\* a tools/call request sent to the provider
ToolCall(name, args, depth) == [name |-> name, arguments |-> args, depth |-> depth]

\* ------------------------------------------------------------------- retry
DefaultMaxAttempts  == 3
DefaultInitialDelay == 1000
DefaultMaxDelay     == 10000
JitterRange         == 200      \* Math.random() * 200

\* the policies a caller passes, after the ?? defaults
Policies ==
  {[maxAttempts |-> n, initialDelay |-> DefaultInitialDelay, maxDelay |-> m] :
     n \in 1..MaxAttemptsBound, m \in {DefaultMaxDelay, 3 * DefaultInitialDelay}}

\* values of Math.random() * 200, in whole milliseconds
JitterSamples == {0, JitterRange - 1}

\* what operation() may throw: isError is `instanceof Error`, message its text,
\* class what the failure is (rate limit, timeout, network, 5xx, 4xx, other)
Throwables ==
  { [isError |-> TRUE,  message |-> <<"rate limit", " exceeded">>,      class |-> "rate limit"],
    [isError |-> TRUE,  message |-> <<"Request ", "timeout">>,          class |-> "timeout"],
    [isError |-> TRUE,  message |-> <<"network", " error">>,            class |-> "network"],
    [isError |-> TRUE,  message |-> <<"HTTP ", "5", "0", "3">>,         class |-> "5xx"],
    [isError |-> TRUE,  message |-> <<"HTTP ", "4", "0", "0">>,         class |-> "4xx"],
    [isError |-> TRUE,  message |-> <<"HTTP ", "4", "0", "5">>,         class |-> "4xx"],
    [isError |-> FALSE, message |-> <<"invalid request">>,              class |-> "other"] }

TransientClasses == {"rate limit", "timeout", "network", "5xx"}

\* String.prototype.includes: pattern occurs as a contiguous part of message
Includes(message, pattern) ==
  \E i \in 0..(Len(message) - Len(pattern)) :
    \A j \in 1..Len(pattern) : message[i + j] = pattern[j]

\* every error rethrown, none retried
NotRetryable_Always(error) == TRUE

\* the check before `throw error` at cli-client.ts 106-114: TRUE when the error is rethrown
NotRetryable(error) ==
  /\ error.isError
  /\ ~Includes(error.message, <<"rate limit">>)
  /\ ~Includes(error.message, <<"timeout">>)
  /\ ~Includes(error.message, <<"network">>)
  /\ ~Includes(error.message, <<"5">>)

\* attempts compared with > instead of >=
Exhausted_OffByOne(a, maxAttempts) == a > maxAttempts

\* the check `attempt >= maxAttempts`
Exhausted(a, maxAttempts) == a >= maxAttempts

Min(a, b) == IF a <= b THEN a ELSE b

\* the doubled delay without the cap
NextDelay_Uncapped(d, maxDelay, jitter) == d * 2 + jitter

\* delay = Math.min(delay * 2, maxDelay) + jitter
NextDelay(d, maxDelay, jitter) == Min(d * 2, maxDelay) + jitter

RetryIdle ==
  /\ options = [maxAttempts |-> DefaultMaxAttempts, initialDelay |-> DefaultInitialDelay,
                maxDelay |-> DefaultMaxDelay]
  /\ attempt = 1
  /\ delay = DefaultInitialDelay
  /\ settled = ""
  /\ thrown = [id |-> 0]
  /\ errors = <<>>
  /\ calls = 0
  /\ sleeps = <<>>
  /\ warnings = 0

Init ==
  /\ RetryIdle
  /\ variant \in {1, 2}
  /\ MAX_TOOL_DEPTH \in 1..MaxDepthBound
  /\ messages = <<>>
  /\ stack = <<>>
  /\ chunks = 0
  /\ result = "none"
  /\ caught = ""
  /\ logged = ""
  /\ toolCalls = <<>>
  /\ requests = <<>>
  /\ creates = 0
  /\ cli = "connect"
  /\ started = FALSE
  /\ connection = "none"

\* what processQuery leaves its caller with after its catch block: it rethrows
CatchOutcome_Rethrow == "threw"

\* what processQuery leaves its caller with after its catch block: the error is
\* logged and the function ends without a return value
CatchOutcome == "undefined"

\* the exception ending the innermost processStream only
Unwound_OneFrame == SubSeq(stack, 1, Len(stack) - 1)

\* the processStream frames left when an exception has reached the catch block of
\* processQuery: every awaiting frame was left on the way
Unwound == <<>>

\* the catch block of processQuery, and chat_loop going on to its next rl.question
Catch(msgs, error) ==
  /\ messages' = msgs
  /\ stack' = Unwound
  /\ result' = CatchOutcome
  /\ caught' = error
  /\ cli' = "prompt"

\* ------------------------------------------------------------------- start
\* what a failed client.start() leads to: the chat loop is entered all the same
StartFailure_ChatLoop == "prompt"

\* what a failed client.start() leads to: process.exit(1), in start() itself in the
\* first class, in the catch of MCPClientCLI.start around the rethrown error in
\* the second
StartFailure == "exit1"

\* client.start(): mcpClient.connect(transport) resolves or rejects
Connect ==
  /\ cli = "connect"
  /\ \E connected \in BOOLEAN :
       /\ cli' = IF connected THEN "discover" ELSE StartFailure
       /\ connection' = IF connected THEN "open" ELSE connection
  /\ UNCHANGED <<variant, MAX_TOOL_DEPTH, started, messages, stack, chunks, result,
                 caught, logged, toolCalls, requests, creates, retryVars>>

\* client.start(): initMCPTools, the tools/list request, resolves or rejects; when
\* it resolves start() has completed and MCPClientCLI.start enters chat_loop
InitMCPTools ==
  /\ cli = "discover"
  /\ \E listed \in BOOLEAN :
       /\ cli' = IF listed THEN "prompt" ELSE StartFailure
       /\ started' = listed
  /\ UNCHANGED <<variant, MAX_TOOL_DEPTH, connection, messages, stack, chunks, result,
                 caught, logged, toolCalls, requests, creates, retryVars>>

\* ------------------------------------------------------------ processQuery
\* the depth carried over from the previous query instead of 0
FirstFrame_Stale == NewFrame(Len(toolCalls), FALSE)

\* the frame of processStream(stream, 0, false)
FirstFrame == NewFrame(0, FALSE)

\* chat_loop reads a query and calls processQuery of the first class: push the
\* query, request a stream, processStream(stream, 0, false)
ProcessQuery ==
  /\ variant = 1
  /\ cli = "prompt"
  /\ ~Running
  /\ Len(messages) < MaxMessages
  /\ toolCalls' = <<>>
  /\ creates' = 1
  /\ \E q \in QueryTexts :
       LET msgs == Append(messages, Msg("user", q)) IN
         \/ /\ \E error \in ApiFailures : Catch(msgs, error)
            /\ requests' = <<>>
            /\ logged' = ""
         \/ /\ messages' = msgs
            /\ stack' = <<FirstFrame>>
            /\ requests' = <<Request(TRUE, 0, FALSE)>>
            /\ logged' = ""
            /\ result' = "pending"
            /\ caught' = ""
            /\ cli' = "query"
  /\ UNCHANGED <<variant, MAX_TOOL_DEPTH, started, connection, chunks, retryVars>>

\* chat_loop reads a query and calls processQuery of the second class: push the
\* preamble with the query, request a stream, processStream(stream)
ProcessQuery2 ==
  /\ variant = 2
  /\ cli = "prompt"
  /\ ~Running
  /\ Len(messages) < MaxMessages
  /\ toolCalls' = <<>>
  /\ creates' = 1
  /\ \E q \in QueryTexts :
       LET msgs == Append(messages, Msg("user", Preamble \o q)) IN
         \/ /\ \E error \in ApiFailures : Catch(msgs, error)
            /\ requests' = <<>>
            /\ logged' = ""
         \/ /\ messages' = msgs
            /\ stack' = <<NewFrame2>>
            /\ requests' = <<Request(TRUE, 0, FALSE)>>
            /\ logged' = ""
            /\ result' = "pending"
            /\ caught' = ""
            /\ cli' = "query"
  /\ UNCHANGED <<variant, MAX_TOOL_DEPTH, started, connection, chunks, retryVars>>

\* chat_loop reads the exit command and leaves the loop; the finally block of
\* MCPClientCLI.start then runs rl.close() and process.exit(0): client.stop() is
\* not called anywhere, so mcpClient.close() never runs
Exit ==
  /\ cli = "prompt"
  /\ cli' = "closed"
  /\ UNCHANGED <<variant, MAX_TOOL_DEPTH, started, connection, messages, stack, chunks, result, caught,
                 logged, toolCalls, requests, creates, retryVars>>

\* ------------------------------------------------- processStream, per chunk
\* message_start, content_block_stop: continue
SkipEvent ==
  /\ Running
  /\ UNCHANGED vars

\* content_block_start: a tool_use block names the tool
ContentBlockStart ==
  /\ Running
  /\ chunks < MaxChunks
  /\ chunks' = chunks + 1
  /\ \/ \E name \in BlockNames :
          stack' = SetTop([Top EXCEPT !.currentToolName = name,
                                      !.blocks = Append(@, [name |-> name, json |-> <<>>])])
     \/ stack' = stack        \* a text block
  /\ UNCHANGED <<variant, MAX_TOOL_DEPTH, started, connection, messages, result, caught,
                 logged, toolCalls, requests, creates, cli, retryVars>>

\* the newest fragment put in front of the buffer
AddText_Front(buffer, text) == text \o buffer

\* currentMessage += chunk.delta.text
AddText(buffer, text) == buffer \o text

\* the newest fragment put in front of the buffer
AddJson_Front(buffer, partial_json) == partial_json \o buffer

\* currentToolInputString += chunk.delta.partial_json
AddJson(buffer, partial_json) == buffer \o partial_json

\* the fragment noted with the tool_use block it arrived in (the last one started)
NoteJson(blocks, partial_json) ==
  [blocks EXCEPT ![Len(blocks)].json = Append(@, partial_json)]

\* content_block_delta: text is accumulated, tool input is accumulated once a tool is named
ContentBlockDelta ==
  /\ Running
  /\ chunks < MaxChunks
  /\ chunks' = chunks + 1
  /\ \/ \E text \in TextDeltas :
          stack' = SetTop([Top EXCEPT !.currentMessage = AddText(@, text),
                                      !.texts = Append(@, text)])
     \/ \E partial_json \in JsonDeltas :
          stack' = IF Top.currentToolName # <<>> /\ partial_json # <<>>
                      THEN SetTop([Top EXCEPT
                                     !.currentToolInputString = AddJson(@, partial_json),
                                     !.blocks = NoteJson(@, partial_json)])
                      ELSE stack
  /\ UNCHANGED <<variant, MAX_TOOL_DEPTH, started, connection, messages, result, caught,
                 logged, toolCalls, requests, creates, cli, retryVars>>

\* message_stop, and the default branch (an unknown event is logged as a warning)
MessageStop ==
  /\ Running
  /\ UNCHANGED vars

\* the default branch starting the frame's buffers afresh
AfterUnknown_Reset(f) ==
  [f EXCEPT !.currentMessage = <<>>, !.currentToolName = <<>>,
            !.currentToolInputString = <<>>]

\* the locals of the frame after the default branch: it only logs
AfterUnknown(f) == f

UnknownEvent ==
  /\ Running
  /\ logged' = "unknown event"
  /\ stack' = SetTop(AfterUnknown(Top))
  /\ UNCHANGED <<variant, MAX_TOOL_DEPTH, started, connection, messages, chunks, result, caught,
                 toolCalls, requests, creates, cli, retryVars>>

\* the accumulated text written over the last message of the history
Commit_Overwrite(f) ==
  IF f.currentMessage # <<>>
  THEN [messages EXCEPT ![Len(messages)] = Msg("assistant", f.currentMessage)]
  ELSE messages

\* the text committed by a message_delta: the accumulated text, when there is any
Commit(f) ==
  IF f.currentMessage # <<>>
  THEN Append(messages, Msg("assistant", f.currentMessage))
  ELSE messages

\* the frame after that commit: currentMessage stays as it is
Committed(f) ==
  [f EXCEPT !.commits = IF f.currentMessage # <<>> THEN @ + 1 ELSE @]

\* the result message put at the front of the history
PushResult_Front(msgs, m) == <<m>> \o msgs

\* this.messages.push of the tool result
PushResult(msgs, m) == Append(msgs, m)

\* a provider that answers a tools/call for any name with a result
ProviderKnows_AnyName(name) == TRUE

\* the provider answers a tools/call: an error for a name it does not know
ProviderKnows(name) == name \in Tools

\* the depth handed to the continuation after an executed tool call
NextDepth(depth) == depth + 1

\* does the continuation after an executed tool call offer this.tools
OfferAfterExecute(depth, halt) == TRUE

\* the halted branch passing tools like the other request
OfferAfterHalt_Tools == TRUE

\* does the continuation of the halted branch offer this.tools
OfferAfterHalt == FALSE

\* message_delta of the first class: commit the text, then on tool_use either
\* run the tool and continue with its result, or (halted) ask for a tool-free answer
MessageDeltaOn(stop_reason) ==
  /\ variant = 1
  /\ Running
  /\   LET f     == Top
           msgs1 == Commit(f)
           outer == SetTop(Committed(f))
           args  == ToolArgs(f.currentToolInputString)
       IN
         \/ /\ stop_reason = "tool_use" /\ ~f.halt
            /\ Len(msgs1) < MaxMessages
            /\ \/ /\ args = "SyntaxError"
                  /\ Catch(msgs1, "parse")
                  /\ UNCHANGED <<toolCalls, requests, logged, creates>>
               \/ /\ args # "SyntaxError"
                  /\ toolCalls' = Append(toolCalls, ToolCall(f.currentToolName, args, f.depth))
                  /\ \/ /\ Catch(msgs1, "tool")
                        /\ UNCHANGED <<requests, logged, creates>>
                     \/ /\ ProviderKnows(f.currentToolName)
                        /\ creates' = creates + 1
                        /\ \E content \in ToolContents :
                             LET msgs2 == PushResult(msgs1, Msg("user", FormattedResult(content))) IN
                               \/ /\ \E error \in ApiFailures : Catch(msgs2, error)
                                  /\ UNCHANGED <<requests, logged>>
                               \/ /\ messages' = msgs2
                                  /\ stack' = Append(outer, NewFrame(NextDepth(f.depth), f.halt))
                                  /\ requests' = Append(requests,
                                        Request(OfferAfterExecute(f.depth, f.halt), NextDepth(f.depth), f.halt))
                                  /\ logged' = EntryLog(NextDepth(f.depth), f.halt)
                                  /\ UNCHANGED <<result, caught, cli>>
         \/ /\ stop_reason = "tool_use" /\ f.halt
            /\ Len(msgs1) < MaxMessages
            /\ UNCHANGED toolCalls
            /\ creates' = creates + 1
            /\ LET msgs2 == Append(msgs1, Msg("user", Instruction)) IN
                 \/ /\ \E error \in ApiFailures : Catch(msgs2, error)
                    /\ UNCHANGED <<requests, logged>>
                 \/ /\ messages' = msgs2
                    /\ stack' = Append(outer, NewFrame(f.depth, TRUE))
                    /\ requests' = Append(requests, Request(OfferAfterHalt, f.depth, TRUE))
                    /\ logged' = EntryLog(f.depth, TRUE)
                    /\ UNCHANGED <<result, caught, cli>>
         \/ /\ stop_reason # "tool_use"
            /\ Len(msgs1) <= MaxMessages
            /\ messages' = msgs1
            /\ stack' = outer
            /\ UNCHANGED <<result, caught, logged, toolCalls, requests, creates, cli>>
  /\ UNCHANGED <<variant, MAX_TOOL_DEPTH, started, connection, chunks, retryVars>>

MessageDelta == \E stop_reason \in StopReasons : MessageDeltaOn(stop_reason)

\* message_delta of the second class: commit the text, on tool_use always run the
\* tool, record its result and continue
MessageDelta2On(stop_reason) ==
  /\ variant = 2
  /\ Running
  /\   LET f     == Top
           msgs1 == Commit(f)
           outer == SetTop(Committed(f))
           args  == ToolArgs(f.currentToolInputString)
       IN
         \/ /\ stop_reason = "tool_use"
            /\ Len(msgs1) < MaxMessages
            /\ \/ /\ args = "SyntaxError"
                  /\ Catch(msgs1, "parse")
                  /\ UNCHANGED <<toolCalls, requests, creates>>
               \/ /\ args # "SyntaxError"
                  /\ toolCalls' = Append(toolCalls, ToolCall(f.currentToolName, args, f.depth))
                  /\ \/ /\ Catch(msgs1, "tool")
                        /\ UNCHANGED <<requests, creates>>
                     \/ /\ ProviderKnows(f.currentToolName)
                        /\ creates' = creates + 1
                        /\ \E content \in ToolContents :
                             LET msgs2 == PushResult(msgs1,
                                            Msg("assistant", ToolResultMessage(f.currentToolName, content))) IN
                               \/ /\ \E error \in ApiFailures : Catch(msgs2, error)
                                  /\ UNCHANGED requests
                               \/ /\ messages' = msgs2
                                  /\ stack' = Append(outer, NewFrame2)
                                  /\ requests' = Append(requests, Request(TRUE, 0, FALSE))
                                  /\ UNCHANGED <<result, caught, cli>>
         \/ /\ stop_reason # "tool_use"
            /\ Len(msgs1) <= MaxMessages
            /\ messages' = msgs1
            /\ stack' = outer
            /\ UNCHANGED <<result, caught, toolCalls, requests, creates, cli>>
  /\ UNCHANGED <<variant, MAX_TOOL_DEPTH, started, connection, chunks, logged, retryVars>>

MessageDelta2 == \E stop_reason \in StopReasons : MessageDelta2On(stop_reason)

\* the stream is exhausted: processStream returns to the frame that awaited it, and
\* the outermost return lets processQuery return this.messages to chat_loop
StreamEnd ==
  /\ Running
  /\ stack' = Pop
  /\ result' = IF Len(stack) = 1 THEN "messages" ELSE result
  /\ cli' = IF Len(stack) = 1 THEN "prompt" ELSE cli
  /\ UNCHANGED <<variant, MAX_TOOL_DEPTH, started, connection, messages, chunks, caught, logged,
                 toolCalls, requests, creates, retryVars>>

Next ==
  \/ Connect
  \/ InitMCPTools
  \/ ProcessQuery
  \/ ProcessQuery2
  \/ Exit
  \/ SkipEvent
  \/ ContentBlockStart
  \/ ContentBlockDelta
  \/ MessageDelta
  \/ MessageDelta2
  \/ MessageStop
  \/ UnknownEvent
  \/ StreamEnd

Spec == Init /\ [][Next]_vars

\* ------------------------------------------- retryWithExponentialBackoff
HostIdle ==
  /\ variant = 1
  /\ MAX_TOOL_DEPTH = 1
  /\ messages = <<>>
  /\ stack = <<>>
  /\ chunks = 0
  /\ result = "none"
  /\ caught = ""
  /\ logged = ""
  /\ toolCalls = <<>>
  /\ requests = <<>>
  /\ creates = 0
  /\ cli = "prompt"
  /\ started = TRUE
  /\ connection = "open"

\* the function is entered with a policy: attempt = 1, delay = initialDelay
RetryInit ==
  /\ HostIdle
  /\ options \in Policies
  /\ attempt = 1
  /\ delay = options.initialDelay
  /\ settled = ""
  /\ thrown = [id |-> 0]
  /\ errors = <<>>
  /\ calls = 0
  /\ sleeps = <<>>
  /\ warnings = 0

\* one pass of the while loop whose operation() resolves: its value is returned
AttemptReturns ==
  /\ settled = ""
  /\ calls' = calls + 1
  /\ settled' = "returned"
  /\ UNCHANGED <<options, attempt, delay, thrown, errors, sleeps, warnings, hostVars>>

\* one pass of the while loop whose operation() rejects: rethrow when the attempts
\* are used up or the error is not retryable, else warn, sleep and count the attempt
AttemptThrows ==
  /\ settled = ""
  /\ calls' = calls + 1
  /\ \E t \in Throwables :
       LET error == [id |-> calls + 1, isError |-> t.isError, message |-> t.message,
                     class |-> t.class]
       IN
         /\ errors' = Append(errors, error)
         /\ \/ /\ Exhausted(attempt, options.maxAttempts)
               /\ settled' = "thrown"
               /\ thrown' = error
               /\ UNCHANGED <<attempt, delay, sleeps, warnings>>
            \/ /\ ~Exhausted(attempt, options.maxAttempts)
               /\ NotRetryable(error)
               /\ settled' = "thrown"
               /\ thrown' = error
               /\ UNCHANGED <<attempt, delay, sleeps, warnings>>
            \/ /\ ~Exhausted(attempt, options.maxAttempts)
               /\ ~NotRetryable(error)
               /\ \E jitter \in JitterSamples :
                    /\ delay' = NextDelay(delay, options.maxDelay, jitter)
                    /\ sleeps' = Append(sleeps, delay')
               /\ warnings' = warnings + 1
               /\ attempt' = attempt + 1
               /\ UNCHANGED <<settled, thrown>>
  /\ UNCHANGED <<options, hostVars>>

RetryNext ==
  \/ AttemptReturns
  \/ AttemptThrows

RetrySpec == RetryInit /\ [][RetryNext]_vars

\* ============================================================== properties
HaltSet == \E i \in 1..Len(requests) : HaltOnEntry(requests[i].depth, requests[i].halt)

QueryMessage(m) == m.role = "user" /\ m.content \in QueryTexts

\* every frame opened by the current query is still open: each stream so far was
\* answered by exactly one capability request
EveryResponseRequests == Len(stack) = Len(requests)

(* C1: with MAX_DEPTH = d and a model whose every response requests a capability,
   exactly d invocations are executed, the request issued after the halt offers
   no capabilities, and no request follows it: at most d + 2 requests per query. *)
C1_RecursionBound ==
  (variant = 1 /\ Running /\ EveryResponseRequests) =>
     /\ Len(toolCalls) = Min(Len(requests) - 1, MAX_TOOL_DEPTH)
     /\ Len(requests) <= MAX_TOOL_DEPTH + 2
     /\ Len(requests) = MAX_TOOL_DEPTH + 2 => ~requests[MAX_TOOL_DEPTH + 2].tools

(* C2: a message_delta with stop reason tool_use takes the execution branch (the
   tool call is sent to the provider, or the payload fails to parse on the way to
   it) exactly when allowCapabilities(depth, halted) holds for the frame's
   arguments; otherwise nothing is sent to the provider. *)
C2_ExecutesIffAllowed ==
  [][MessageDeltaOn("tool_use") =>
       ((Len(toolCalls') > Len(toolCalls) \/ caught' = "parse")
          <=> allowCapabilities(Top.depth, Top.haltParam))]_vars

C2_Witness ==
  /\ variant = 1
  /\ Len(toolCalls) > 0
  /\ \E i \in 1..Len(requests) : ~requests[i].tools

(* C3: the stream requested on the halted path is final: the frame that reduces
   it issues no further completion request, whatever its stop reason. *)
C3_OneFinalStream ==
  [][(variant = 1 /\ Running /\ Top.haltParam) => Len(requests') <= Len(requests)]_vars

(* C4 as stated: a request offers the capabilities exactly when the recursion
   state it starts with is not halted, so the request that carries depth =
   MAX_DEPTH offers none. *)
C4_NoToolsOnceDepthReached ==
  \A i \in 1..Len(requests) :
    requests[i].tools = ~HaltOnEntry(requests[i].depth, requests[i].halt)

(* C4 amended: a request offers the capabilities unless it is the continuation of
   the halted branch (the one called with halt = true); the continuation issued
   right after the execution that raises depth to MAX_DEPTH still offers them. *)
C4_ToolsUnlessHaltedBranch ==
  \A i \in 1..Len(requests) :
    /\ requests[i].tools = ~requests[i].halt
    /\ requests[i].halt => requests[i].depth >= MAX_TOOL_DEPTH

C4_Witness ==
  \E i, j \in 1..Len(requests) :
    /\ i < j
    /\ requests[i].depth = MAX_TOOL_DEPTH /\ requests[i].tools
    /\ ~requests[j].tools

(* C5: processQuery ends after a bounded number of completion requests: the
   nesting of continuation streams never exceeds the initial stream, MAX_DEPTH
   continuations and one final halted stream. *)
C5_BoundedRecursion == Len(stack) <= MAX_TOOL_DEPTH + 2

(* C6: once a frame of the query has set halt, no later step of the same query
   sends a tool call to the provider, in any frame. *)
C6_HaltOneWay ==
  [][(variant = 1 /\ Running /\ HaltSet) => Len(toolCalls') <= Len(toolCalls)]_vars

(* C7: the first stream of every processQuery is processed with depth 0 and halt
   false, whatever the previous query ended with, so tool calls are allowed. *)
C7_FreshRecursionState ==
  Running =>
    /\ stack[1].depth = 0
    /\ ~stack[1].haltParam
    /\ ~stack[1].halt
    /\ allowCapabilities(stack[1].depth, stack[1].haltParam)

\* a query that follows a halted query has executed MAX_DEPTH tool calls again
C7_Witness ==
  /\ variant = 1
  /\ Len(toolCalls) = MAX_TOOL_DEPTH
  /\ \E i, j \in 1..Len(messages) :
       /\ i < j
       /\ messages[i].content = Instruction
       /\ QueryMessage(messages[j])

AllTransient == \A i \in 1..Len(errors) : errors[i].class \in TransientClasses

(* C8: when every attempt fails with a transient error, the operation is invoked
   exactly maxAttempts times and the call rejects with the last error itself. *)
C8_ExhaustionRethrowsLast ==
  AllTransient =>
    /\ calls <= options.maxAttempts
    /\ settled = "" => Len(errors) < options.maxAttempts
    /\ settled = "thrown" =>
         /\ calls = options.maxAttempts
         /\ thrown = errors[options.maxAttempts]
         /\ thrown.id = options.maxAttempts

C8_Witness ==
  /\ AllTransient
  /\ settled = "thrown"
  /\ options.maxAttempts = MaxAttemptsBound
  /\ Len(sleeps) = MaxAttemptsBound - 1

(* C9: an error outside the four transient classes thrown by the first attempt
   ends the call after that one invocation: it is propagated, nothing is slept
   and no retry warning is written. *)
C9_NonRetryableOnce ==
  (Len(errors) >= 1 /\ errors[1].class \notin TransientClasses) =>
    /\ calls = 1
    /\ settled = "thrown"
    /\ thrown = errors[1]
    /\ sleeps = <<>>
    /\ warnings = 0

(* C10: while attempts remain, a failure is followed by another attempt exactly
   when it is a rate limit, a timeout, a network failure or a 5xx error. *)
C10_RetryableIffTransient ==
  \A i \in 1..Len(errors) :
    i < options.maxAttempts =>
      ((attempt > i) <=> errors[i].class \in TransientClasses)

\* initialDelay * 2^n capped at maxDelay: the un-jittered delay after n failed attempts
Backoff(n) == Min(options.initialDelay * 2^n, options.maxDelay)

(* C11: the delay slept before attempt n+1, after n failed attempts, is
   min(initialDelay * 2^n, maxDelay) plus one jitter from [0, 200): the jitter of
   an earlier retry is not part of it. *)
C11_DelayFromAttemptOnly ==
  [][attempt' = attempt + 1 =>
       \E jitter \in 0..(JitterRange - 1) : delay' = Backoff(attempt) + jitter]_vars

(* C12: the backoff delay that precedes attempt k lies in
   [min(initial * 2^(k-1), max), min(initial * 2^(k-1), max) + 200). *)
C12_DelayInterval ==
  \A k \in 2..(Len(sleeps) + 1) :
    /\ sleeps[k - 1] >= Backoff(k - 1)
    /\ sleeps[k - 1] <  Backoff(k - 1) + JitterRange

\* messages.create invocations of the current query that were rejected
Rejected == creates - Len(requests)

(* C13: completion requests go through the retrying caller: a query is aborted by
   a transient failure of the completion API only after messages.create has been
   tried maxAttempts (by default 3) times for the failing request. *)
C13_TransientRetried ==
  caught \in TransientClasses => Rejected >= DefaultMaxAttempts

\* a message_delta with this stop reason is handled, in either class
MessageDeltaAny(stop_reason) == MessageDeltaOn(stop_reason) \/ MessageDelta2On(stop_reason)

\* the stream has so far delivered text only and the frame has committed nothing
TextOnly(f) == f.blocks = <<>> /\ f.commits = 0

(* C14: when a stream of text deltas is completed by a message_delta whose stop
   reason is not tool_use, exactly one assistant message is committed, holding the
   text fragments concatenated in arrival order (none when the text is empty); no
   tool call is sent and no completion request is issued. *)
C14_TextCommittedInOrder ==
  [][(MessageDeltaAny("end_turn") /\ TextOnly(Top)) =>
       /\ messages' = IF Concat(Top.texts) # <<>>
                         THEN Append(messages, Msg("assistant", Concat(Top.texts)))
                         ELSE messages
       /\ toolCalls' = toolCalls
       /\ requests' = requests
       /\ creates' = creates
       /\ Len(stack') = Len(stack)]_vars

C14_Witness ==
  /\ Running
  /\ Top.texts = << <<"H">>, <<"i">> >>
  /\ Top.blocks = <<>>
  /\ Top.commits = 1
  /\ messages[Len(messages)] = Msg("assistant", <<"H", "i">>)
  /\ toolCalls = <<>>
  /\ Len(requests) = 1

\* the frame has seen exactly one tool_use block
OneBlock(f) == Len(f.blocks) = 1

\* the fragments that arrived in that block, in arrival order, as one string
Payload(f) == Concat(f.blocks[1].json)

(* C15: the argument fragments of a requested capability are concatenated in
   arrival order and parsed once, when the message_delta with stop reason tool_use
   arrives: no content_block_delta parses (and so none aborts on) a partial
   payload, and the one tool call sent carries the block's name and the object
   that the whole concatenation denotes. *)
C15_ArgumentsParsedOnceWhole ==
  [][/\ ContentBlockDelta =>
          (caught' = caught /\ toolCalls' = toolCalls /\ Len(stack') = Len(stack))
     /\ (/\ MessageDeltaAny("tool_use")
         /\ ~Top.halt
         /\ OneBlock(Top)
         /\ Payload(Top) # <<>>
         /\ JSONParse(Payload(Top)) # "SyntaxError") =>
          /\ caught' # "parse"
          /\ toolCalls' = Append(toolCalls,
                 ToolCall(Top.blocks[1].name, JSONParse(Payload(Top)), Top.depth))]_vars

C15_Witness ==
  \E i \in 1..Len(stack) :
    /\ stack[i].blocks = <<[name |-> <<"add">>, json |-> << <<"{">>, <<"a", "}">> >>]>>
    /\ toolCalls = <<ToolCall(<<"add">>, "{a}", stack[i].depth)>>
    /\ Len(stack) > i

(* C16: a message_delta with stop reason tool_use that finds the accumulated
   argument payload empty sends the tool call with the empty object as arguments
   and raises no parse error. *)
C16_EmptyPayloadIsEmptyObject ==
  [][(/\ MessageDeltaAny("tool_use")
      /\ ~Top.halt
      /\ Top.currentToolInputString = <<>>) =>
       /\ caught' # "parse"
       /\ toolCalls' = Append(toolCalls, ToolCall(Top.currentToolName, "{}", Top.depth))]_vars

C16_Witness ==
  \E i \in 1..Len(stack) :
    /\ stack[i].blocks = <<[name |-> <<"add">>, json |-> <<>>]>>
    /\ stack[i].currentToolInputString = <<>>
    /\ toolCalls = <<ToolCall(<<"add">>, "{}", stack[i].depth)>>
    /\ Len(stack) > i

(* C17: an event of an unknown kind is only logged as a warning: the stream goes
   on, and the history, the frames with their text buffer, tool name and argument
   buffer, the tool calls and the requests are what they were before it, so the
   events after it find the state they would have found without it. *)
C17_UnknownEventOnlyLogged ==
  [][UnknownEvent =>
       /\ logged' = "unknown event"
       /\ messages' = messages
       /\ stack' = stack
       /\ toolCalls' = toolCalls
       /\ requests' = requests
       /\ creates' = creates
       /\ result' = result
       /\ caught' = caught
       /\ cli' = cli]_vars

C17_Witness ==
  /\ logged = "unknown event"
  /\ Running
  /\ result = "pending"
  /\ caught = ""
  /\ Top.currentMessage # <<>>
  /\ Top.currentToolName # <<>>
  /\ Top.currentToolInputString # <<>>

\* a step in which a tools/call was sent and the provider answered it with a result
Executed == Len(toolCalls') > Len(toolCalls) /\ caught' # "tool"

(* C18: the result of every executed capability is recorded as exactly one
   message with role assistant and content `Tool result returned for [<name>]:
   <content>`, <content> being the text segments of the result joined in order. *)
C18_ResultAsAssistantTemplate ==
  [][Executed =>
       \E content \in ToolContents :
         messages' = Append(Commit(Top),
                        Msg("assistant", ToolResultMessage(Top.currentToolName, content)))]_vars

\* the message processQuery pushes for a query, in either class
IsQuery(m) ==
  /\ m.role = "user"
  /\ \E q \in QueryTexts : m.content = q \/ m.content = Preamble \o q

\* the message that records a tool result, as the running class writes it
IsResult(m) ==
  \E name \in BlockNames, content \in ToolContents :
    IF variant = 2
      THEN m = Msg("assistant", ToolResultMessage(name, content))
      ELSE m = Msg("user", FormattedResult(content))

\* the last query of the history
LastQuery == CHOOSE i \in 1..Len(messages) :
               IsQuery(messages[i]) /\ \A j \in (i + 1)..Len(messages) : ~IsQuery(messages[j])

\* processQuery has returned the history of a query in which one capability was
\* requested and executed and the continuation ended with an answer in text
OneToolThenAnswer ==
  /\ result = "messages"
  /\ Len(toolCalls) = 1
  /\ Len(requests) = 2
  /\ messages[Len(messages)].role = "assistant"
  /\ ~IsResult(messages[Len(messages)])

(* C19: in the history returned for a query in which the model requested one
   capability and then answered, exactly one message records the result of that
   invocation, and it stands after the query's user message and before the
   assistant message that holds the final answer. *)
C19_ResultBetweenQueryAndAnswer ==
  OneToolThenAnswer =>
    \E r \in (LastQuery + 1)..(Len(messages) - 1) :
      /\ IsResult(messages[r])
      /\ \A k \in 1..Len(messages) : (k # r /\ k > LastQuery) => ~IsResult(messages[k])

C19_Witness ==
  /\ variant = 2
  /\ OneToolThenAnswer
  /\ Len(messages) = 3
  /\ IsQuery(messages[1])
  /\ messages[2] = Msg("assistant", <<"Tool result returned for [", "add", "]: ", "2", "3">>)
  /\ messages[3] = Msg("assistant", <<"H">>)

\* chat_loop calls processQuery, or a message_delta is handled inside that call
InProcessQuery == ProcessQuery \/ ProcessQuery2 \/ MessageDelta \/ MessageDelta2

(* C20: a failure inside processQuery (a rejected completion request, a payload
   that does not parse, a failed tool call) is caught there: nothing is thrown to
   chat_loop, the call ends, and chat_loop is back at its prompt, where the next
   query is accepted (as long as the modelled history has room for it). *)
C20_FailureReturnsToPrompt ==
  /\ [][(InProcessQuery /\ caught' # "") =>
          /\ caught' \in ApiFailures \cup {"parse", "tool"}
          /\ result' = "undefined"
          /\ ~Running'
          /\ cli' = "prompt"]_vars
  /\ []((cli = "prompt" /\ Len(messages) < MaxMessages) =>
          ENABLED (ProcessQuery \/ ProcessQuery2))

C20_Witness ==
  /\ caught = "tool"
  /\ result = "undefined"
  /\ cli = "prompt"
  /\ ~Running
  /\ Len(toolCalls) = 1
  /\ Len(messages) < MaxMessages

\* a message that tells the user of an error: 'I apologize, but I encountered an error: ...'
IsApology(m) ==
  /\ m.role = "assistant"
  /\ Len(m.content) > 0
  /\ m.content[1] = "I apologize, but I encountered an error: "

(* C21: whatever aborts a turn (a rejected completion request, an unknown tool,
   a failed tool call, a payload that does not parse), one apology message is
   appended to the history and processQuery still returns the history. *)
C21_AbortAppendsApology ==
  caught # "" =>
    /\ result = "messages"
    /\ Len(messages) > 0
    /\ IsApology(messages[Len(messages)])

\* a message_delta asks for a tool, in a frame that may run tools, with arguments that parse
ToolRequested ==
  /\ MessageDeltaAny("tool_use")
  /\ ~Top.halt
  /\ ToolArgs(Top.currentToolInputString) # "SyntaxError"

(* C22: a requested tool whose name is not among the discovered tools aborts the
   turn with an error that is reported: the request is not passed over, it is
   tried once, no result message is appended and no completion request follows. *)
C22_UnknownToolAborts ==
  [][(ToolRequested /\ Top.currentToolName \notin Tools) =>
       /\ caught' = "tool"
       /\ result' = "undefined"
       /\ ~Running'
       /\ Len(toolCalls') = Len(toolCalls) + 1
       /\ messages' = Commit(Top)
       /\ requests' = requests
       /\ creates' = creates]_vars

C22_Witness ==
  /\ caught = "tool"
  /\ ~Running
  /\ Len(toolCalls) = 1
  /\ toolCalls[1].name = <<"nope">>
  /\ Len(messages) = 1
  /\ Len(requests) = 1

(* C23: a tools/call that fails aborts the turn: no result message is appended
   for it, no completion request follows, every frame of the recursion is left,
   and until the next query nothing more is executed or appended. *)
C23_ToolFailureAbortsTurn ==
  /\ [][(ToolRequested /\ caught' = "tool") =>
          /\ messages' = Commit(Top)
          /\ requests' = requests
          /\ creates' = creates
          /\ stack' = <<>>
          /\ result' = "undefined"]_vars
  /\ [][(caught = "tool" /\ ~(ProcessQuery \/ ProcessQuery2)) =>
          /\ toolCalls' = toolCalls
          /\ messages' = messages
          /\ requests' = requests]_vars

C23_Witness ==
  /\ caught = "tool"
  /\ ~Running
  /\ Len(toolCalls) = 2
  /\ toolCalls[2].name = <<"add">>
  /\ Len(requests) = 2
  /\ Len(messages) = 2
  /\ IsResult(messages[2])

\* the value is a structured object
IsObject(value) == value \in {"{}", "{a}"}

(* C24: a requested tool whose accumulated payload does not parse as a structured
   object aborts the turn with a parse error before anything is sent to the
   provider: no tool call, no result message, no completion request. *)
C24_MalformedPayloadAborts ==
  [][(/\ MessageDeltaAny("tool_use")
      /\ ~Top.halt
      /\ Top.currentToolInputString # <<>>
      /\ ~IsObject(JSONParse(Top.currentToolInputString))) =>
       /\ caught' = "parse"
       /\ ~Running'
       /\ toolCalls' = toolCalls
       /\ messages' = Commit(Top)
       /\ requests' = requests
       /\ creates' = creates]_vars

(* C25: a tool call is routed by name to the provider that advertises the tool,
   and a name that no provider advertises is answered NotFound instead of being
   sent to a provider: every tools/call request the host sends names a tool of
   the list discovered at start(). *)
C25_OnlyAdvertisedToolsSent ==
  \A i \in 1..Len(toolCalls) : toolCalls[i].name \in Tools

\* the completion streams opened and not yet consumed to their end
Outstanding == Len(stack)

\* the statement of C26 as written: exactly one stream is outstanding at every
\* moment of a query
C26_ExactlyOneOutstandingStream == Running => Outstanding = 1

(* C26: a query is processed strictly sequentially: at every moment exactly one
   completion stream is being consumed, the one opened last; the streams opened
   before it stay open, suspended and untouched, until it returns; a step opens
   at most one stream and sends at most one tool call, and a tool call is sent
   only by the frame of the stream being consumed. *)
C26_OneStreamConsumedAtATime ==
  [][/\ \A i \in 1..(Len(stack) - 1) : i <= Len(stack') => stack'[i] = stack[i]
     /\ Len(stack') <= Len(stack) + 1
     /\ Len(toolCalls') <= Len(toolCalls) + 1
     /\ Len(toolCalls') = Len(toolCalls) + 1 =>
          /\ Running
          /\ toolCalls' = Append(toolCalls, toolCalls'[Len(toolCalls')])
          /\ variant = 1 => toolCalls'[Len(toolCalls')].depth = Top.depth]_vars

C26_Witness ==
  /\ Outstanding = 2
  /\ Len(toolCalls) = 1
  /\ Top.texts # <<>>
  /\ stack[1].blocks # <<>>

\* processQuery has been called: something of a query is there
QueryAccepted ==
  \/ messages # <<>>
  \/ Running
  \/ creates > 0
  \/ result # "none"
  \/ cli = "query"

(* C27: no query is accepted before startup has succeeded: the chat loop reads
   and processes a query only once start() has completed connection and
   discovery, and when either fails the process exits and processQuery is never
   called. *)
C27_NoQueryBeforeStartup ==
  /\ [](QueryAccepted => started)
  /\ [](cli \in {"prompt", "query", "closed"} => started)
  /\ [](cli = "exit1" => ~started /\ ~QueryAccepted)
  /\ [][cli = "exit1" => cli' = "exit1"]_vars

C27_Witness ==
  /\ started
  /\ result = "messages"
  /\ Len(messages) = 2
  /\ cli = "prompt"

\* s is a prefix of t
IsPrefix(s, t) == Len(s) <= Len(t) /\ SubSeq(t, 1, Len(s)) = s

(* C28: within a session the history is append-only: the history before each
   operation is a prefix of the history after it; nothing is removed, reordered
   or rewritten, and the messages appended before a failure stay. *)
C28_HistoryAppendOnly == [][IsPrefix(messages, messages')]_vars

C28_Witness ==
  /\ caught \in ApiFailures
  /\ ~Running
  /\ Len(toolCalls) = 1
  /\ Len(messages) = 3
  /\ QueryMessage(messages[1])
  /\ messages[2].role = "assistant"
  /\ IsResult(messages[3])

\* a continuation request is issued by a frame that is not halted
Continues == Running /\ ~Top.halt /\ Len(requests') = Len(requests) + 1

(* C29: a continuation request is issued only after the result of the preceding
   execution was appended: the history sent with every non-halted continuation
   request is the history before it, the committed text, and last the result
   message of the tool just executed. *)
C29_ContinuationAfterResult ==
  [][Continues =>
       /\ Len(toolCalls') = Len(toolCalls) + 1
       /\ toolCalls'[Len(toolCalls')].name = Top.currentToolName
       /\ Len(messages') = Len(Commit(Top)) + 1
       /\ SubSeq(messages', 1, Len(messages') - 1) = Commit(Top)
       /\ \E content \in ToolContents :
            messages'[Len(messages')] =
              IF variant = 2
                THEN Msg("assistant",
                         <<"Tool result returned for [">> \o Top.currentToolName
                           \o <<"]: ">> \o Concat(content))
                ELSE Msg("user", FormattedResult(content))]_vars

C29_Witness ==
  /\ Running
  /\ Len(requests) = 2
  /\ Len(toolCalls) = 1
  /\ Len(stack) = 2
  /\ Top.texts = <<>> /\ Top.blocks = <<>>
  /\ IsResult(messages[Len(messages)])

(* C30: every delay that retryWithExponentialBackoff sleeps is strictly less than
   maxDelay + 200 ms, whatever the policy and however many attempts have
   failed. *)
C30_SleepBelowCapPlusJitter ==
  \A i \in 1..Len(sleeps) : sleeps[i] < options.maxDelay + JitterRange

C30_Witness ==
  /\ Len(sleeps) = 2
  /\ sleeps[1] < options.maxDelay
  /\ sleeps[2] = options.maxDelay + JitterRange - 1

(* C31: provider connections are closed on shutdown: when the session ends
   through the exit command, stop() has been invoked and the provider connection
   is closed before the process exits. *)
C31_ConnectionClosedOnExit == cli = "closed" => connection = "closed"

\* every failure so far was of a retryable class
AllRetryable == \A i \in 1..Len(errors) : errors[i].class \in TransientClasses

(* C32: when the operation fails with retryable errors on its first k-1 attempts
   and succeeds on attempt k <= maxAttempts, the call returns after exactly k
   invocations and k-1 delays: attempt k is made (the call does not give up
   while attempts are left), and the operation is not invoked again after the
   success. *)
C32_SuccessOnAttemptK ==
  /\ []((AllRetryable /\ Len(errors) < options.maxAttempts) => settled # "thrown")
  /\ []((AllRetryable /\ settled = "returned") =>
          /\ calls = Len(errors) + 1
          /\ Len(sleeps) = Len(errors)
          /\ warnings = Len(errors)
          /\ calls <= options.maxAttempts)
  /\ [][settled = "returned" => calls' = calls /\ sleeps' = sleeps]_vars

C32_Witness ==
  /\ settled = "returned"
  /\ AllRetryable
  /\ Len(errors) = 2
  /\ calls = 3
  /\ Len(sleeps) = 2

(* C33: every processStream frame of a query is entered with a depth equal to
   the number of tool executions completed so far for that query: the depth
   grows by exactly one per executed tool, is unchanged on the halted path, and
   the executions of one query never exceed MAX_TOOL_DEPTH, whatever the stream
   events. *)
C33_DepthCountsExecutions ==
  /\ [][(variant = 1 /\ Len(stack') = Len(stack) + 1) =>
          Top'.depth = Len(toolCalls')]_vars
  /\ [](variant = 1 => Len(toolCalls) <= MAX_TOOL_DEPTH)
  /\ [][(variant = 1 /\ Running /\ Running' /\ Len(stack') = Len(stack) + 1) =>
          Top'.depth = Top.depth + (Len(toolCalls') - Len(toolCalls))]_vars

(* C34: reducing one completion stream appends at most one assistant text
   message to the history, whatever the number and order of message_delta events
   in the stream: the accumulated text is never committed twice. *)
C34_TextCommittedAtMostOnce ==
  /\ [](\A i \in 1..Len(stack) : stack[i].commits <= 1)
  /\ [][(Running /\ Top.commits >= 1 /\ (MessageDelta \/ MessageDelta2)) =>
          (\/ Len(messages') = Len(messages)
           \/ messages'[Len(messages) + 1].role # "assistant"
           \/ IsResult(messages'[Len(messages) + 1]))]_vars

\* the last tool_use block the frame has seen, and its fragments as one string
LastBlock(f) == f.blocks[Len(f.blocks)]
LastPayload(f) == Concat(LastBlock(f).json)

(* C35: the name and the arguments passed to the provider belong to the same
   tool_use block: when a stream has several tool_use blocks before the
   message_delta with stop reason tool_use, the payload parsed for the call is
   made of the fragments that arrived inside the block of the tool that is
   invoked (the last one started), not of fragments of an earlier block. *)
C35_ArgumentsOfInvokedBlock ==
  [][(MessageDeltaAny("tool_use") /\ ~Top.halt /\ Top.blocks # <<>>) =>
       IF ToolArgs(LastPayload(Top)) = "SyntaxError"
         THEN caught' = "parse" /\ toolCalls' = toolCalls
         ELSE /\ Len(toolCalls') = Len(toolCalls) + 1
              /\ toolCalls'[Len(toolCalls')].name = LastBlock(Top).name
              /\ toolCalls'[Len(toolCalls')].arguments = ToolArgs(LastPayload(Top))]_vars

====
